---- MODULE Spec2Model ----
(***************************************************************************)
(* propagating-hammerjs: event propagation on top of hammer.js managers.   *)
(*                                                                         *)
(* The model follows src/propagating.js.  A hammer.js manager (the gesture *)
(* recognizer) is an external collaborator: it is modelled by its listener *)
(* table (on / off / emit / destroy) and by the stream of input phases and *)
(* gesture events it emits through the manager's emit method, which        *)
(* propagating() replaces on the instance.                                 *)
(*                                                                         *)
(* JavaScript runs one thread: user code (a script, or a handler invoked   *)
(* by a dispatch pass) calls the API, and an emit runs synchronously       *)
(* inside its caller.  The call stack is explicit: emit frames (the        *)
(* manager iterating over its listeners), walk frames (propagatedHandler   *)
(* in its loops) and handler frames (a user callback that has not returned *)
(* yet).                                                                   *)
(***************************************************************************)
EXTENDS Integers, Sequences, FiniteSets, TLC

\* ---------------------------------------------------------------- bounds
NumElems == 3
NumBindings == 3
MaxNative == 2
MaxOps == 3
MaxGestureOps == 1
MaxEvents == 5
MaxDepth == 6
MaxDomOps == 2

\* ------------------------------------------------------------- universes
Null == 0

Elems == 1 .. NumElems
Bindings == 1 .. NumBindings

INPUT == "hammer.input"
GestureTypes == {"pan", "panend"}
Types == GestureTypes \cup {INPUT}

Handlers == {"h1", "h2"}
NoHandler == "undefined"

PointerTypes == {"mouse", "touch"}

\* options argument of propagating(): "absent" when no options object is
\* passed, otherwise the value of options.preventDefault.
OptionValues == {"absent", "true", "false"}

\* The `events` argument of on / off is a string; it is modelled as a
\* sequence of symbols, each a blank or a whole type name.  The strings that
\* are passed never hold two type names without a blank between them.
SP == " "
OnStrings == {<<>>, <<"pan">>, <<INPUT>>, <<"pan", SP, "panend">>}
OffStrings == {<<SP>>, <<"pan">>, <<INPUT>>, <<SP, "panend">>}

\* the two callbacks propagating() registers with the manager
CbInput == "input"
CbProp == "propagatedHandler"

VARIABLES
    parentNode,   \* DOM: element -> parent element or Null
    elemHammer,   \* element.hammer: element -> binding or Null
    firstTarget,  \* _firstTarget (singleton)
    processing,   \* _processing (singleton)
    bstate,       \* binding -> "none" | "alive" | "destroyed"
    belement,     \* binding -> hammer.element
    boptions,     \* binding -> _options.preventDefault
    handlers,     \* binding -> hammer._handlers (type -> array of handlers)
    listeners,    \* binding -> the manager's own table (type -> callbacks)
    events,       \* heap of event objects
    handled,      \* native event -> srcEvent._handled (set of types)
    prevented,    \* native events on which preventDefault() was called
    stack,        \* call stack, top last
    native,       \* the native input event the recognizers are working on
    seen,         \* binding -> event object of its input for `native`, or Null
    turn,         \* the binding whose manager is handling `native`, or Null
    emitted,      \* binding -> gesture types emitted for `native`
    result,       \* outcome of the last API call
    passCount,    \* dispatch passes started so far
    tramp,        \* (srcEvent, type) -> calls of the trampoline, passes run
    inputTrace,   \* effects of the last run of the hammer.input listener
    ops,          \* API calls made so far
    gesture,      \* recognizer side: origin of the gesture in flight
    registered,   \* ghost: <<handler, type>> pairs on() was ever given
    dropped       \* ghost: <<binding, type>> entries off() has deleted

vars == <<parentNode, elemHammer, firstTarget, processing, bstate, belement,
          boptions, handlers, listeners, events, handled, prevented, stack,
          native, seen, turn, emitted, result, passCount, tramp, inputTrace,
          ops, gesture, registered, dropped>>

domVars == <<parentNode>>
envVars == <<native, seen, turn, emitted, gesture>>

\* --------------------------------------------------------------- helpers
EmptyMap == [t \in {} |-> <<>>]

Has(m, t) == t \in DOMAIN m

Put(m, t, v) == [x \in (DOMAIN m) \cup {t} |-> IF x = t THEN v ELSE m[x]]

Delete(m, t) == [x \in (DOMAIN m) \ {t} |-> m[x]]

Last(s) == s[Len(s)]

Front(s) == SubSeq(s, 1, Len(s) - 1)

RECURSIVE Filter(_, _)
Filter(s, h) ==
    IF s = <<>> THEN <<>>
    ELSE IF Head(s) = h THEN Filter(Tail(s), h)
    ELSE <<Head(s)>> \o Filter(Tail(s), h)

RECURSIVE RemoveFirst(_, _)
RemoveFirst(s, c) ==
    IF s = <<>> THEN <<>>
    ELSE IF Head(s) = c THEN Tail(s)
    ELSE <<Head(s)>> \o RemoveFirst(Tail(s), c)

\* split(events): events.match(/[^ ]+/g), null when nothing matches
NoMatch == <<"null">>

IsSpace(c) == c = SP

split(s) ==
    LET words == SelectSeq(s, LAMBDA c : ~IsSpace(c))
    IN  IF words = <<>> THEN NoMatch ELSE words

\* ------------------------------------------------------- the call stack
\* One record shape for the three kinds of frame; the fields a kind does not
\* use keep their defaults.
\*   emit    : b, e, todo (callbacks still to call, a copy of the table row)
\*   walk    : e, pass, stopped, elem, pos, list, i, lb, lt
\*             list is the array `_handlers` the walk holds; (lb, lt) names
\*             the registry slot that still holds that same array, lb = Null
\*             once the registry holds another array.
\*             Ghost fields: start (the element the walk began at), invoked
\*             (the <<element, handler>> calls made so far), stopLen (the
\*             length of invoked when stopped was set), stopBy (the pass of
\*             the handler that set it), quiet (no API call
\*             and no stop was made while the walk was on the stack)
\*   handler : h, e, pass (the pass that calls it), elem (the element it
\*             is called for), lt (event.type at the call), stopped (ghost:
\*             it has called event.stopPropagation())
BlankFrame ==
    [kind |-> "none", b |-> Null, e |-> Null, todo |-> <<>>, by |-> "none",
     pass |-> 0, stopped |-> FALSE, elem |-> Null, pos |-> "none",
     list |-> <<>>, i |-> 0, lb |-> Null, lt |-> "none", h |-> NoHandler,
     start |-> Null, invoked |-> <<>>, stopLen |-> 0, stopBy |-> 0,
     quiet |-> TRUE]

EmitFrame(b, e, todo, by) ==
    [BlankFrame EXCEPT !.kind = "emit", !.b = b, !.e = e, !.todo = todo, !.by = by]

HandlerFrame(h, e, pass, elem, type) ==
    [BlankFrame EXCEPT !.kind = "handler", !.h = h, !.e = e, !.pass = pass,
                       !.elem = elem, !.lt = type]

Top == Last(stack)

\* user code is running: a script at top level, or a handler that has been
\* called and has not returned
UserCtx == IF stack = <<>> THEN TRUE ELSE Top.kind = "handler"

MapStack(stk, F(_)) == [k \in 1 .. Len(stk) |-> F(stk[k])]

\* ghost: an API call or a stop made while a pass is on the stack
Disturb(stk) ==
    MapStack(stk, LAMBDA f : IF f.kind = "walk" THEN [f EXCEPT !.quiet = FALSE] ELSE f)

\* ghost: no call of the API recorded
NoResult == [op |-> "none", b |-> Null, arg |-> "none", ret |-> "undefined"]

\* an uncaught exception unwinds every frame
Throw(op, b, arg, err) ==
    /\ stack' = <<>>
    /\ result' = [op |-> op, b |-> b, arg |-> arg, ret |-> err]

\* ghost: the call op(arg) on binding b returned ret
Return(op, b, arg, ret) == result' = [op |-> op, b |-> b, arg |-> arg, ret |-> ret]

\* ------------------------------------------- the manager's listener table
\* Manager.on(type, cb): append cb to the row of type
RecOn(ls, t, cb) == Put(ls, t, (IF Has(ls, t) THEN ls[t] ELSE <<>>) \o <<cb>>)

\* mutant: the whole row of the type is dropped
RecOffRow(ls, t, cb) == IF Has(ls, t) THEN Delete(ls, t) ELSE ls

\* Manager.off(type, cb): remove cb from the row of type
RecOff(ls, t, cb) == IF Has(ls, t) THEN Put(ls, t, RemoveFirst(ls[t], cb)) ELSE ls

\* the callbacks Manager.emit(type, ..) calls: a copy of the row
RecRow(ls, t) == IF Has(ls, t) THEN ls[t] ELSE <<>>

\* ---------------------------------------------------------- hammer.on
\* mutant: every handler is filed under the type of the raw input phases
onEachUnderInput(st, b, w, h) ==
    LET fresh == ~Has(st.hs, INPUT)
        hs1 == IF fresh THEN Put(st.hs, INPUT, <<>>) ELSE st.hs
        ls1 == IF fresh THEN RecOn(st.ls, INPUT, CbProp) ELSE st.ls
    IN  [hs |-> Put(hs1, INPUT, Append(hs1[INPUT], h)), ls |-> ls1, stk |-> st.stk]

\* mutant: the trampoline is registered with every handler, not only with
\* the first of a type
onEachAlwaysRegisters(st, b, w, h) ==
    LET fresh == ~Has(st.hs, w)
        hs1 == IF fresh THEN Put(st.hs, w, <<>>) ELSE st.hs
    IN  [hs |-> Put(hs1, w, Append(hs1[w], h)),
         ls |-> RecOn(st.ls, w, CbProp),
         stk |-> MapStack(st.stk, LAMBDA f :
                    IF f.kind = "walk" /\ f.lb = b /\ f.lt = w
                    THEN [f EXCEPT !.list = Append(f.list, h)] ELSE f)]

\* mutant: on puts a new array with the handler added into the registry
onEachReplacesArray(st, b, w, h) ==
    LET fresh == ~Has(st.hs, w)
        hs1 == IF fresh THEN Put(st.hs, w, <<>>) ELSE st.hs
        ls1 == IF fresh THEN RecOn(st.ls, w, CbProp) ELSE st.ls
    IN  [hs |-> Put(hs1, w, Append(hs1[w], h)),
         ls |-> ls1,
         stk |-> MapStack(st.stk, LAMBDA f :
                    IF f.kind = "walk" /\ f.lb = b /\ f.lt = w
                    THEN [f EXCEPT !.lb = Null] ELSE f)]

\* body of the forEach of hammer.on for one type name w, on the registry hs
\* and listener table ls of binding b and the stack stk
onEach(st, b, w, h) ==
    LET fresh == ~Has(st.hs, w)
        hs1 == IF fresh THEN Put(st.hs, w, <<>>) ELSE st.hs
        ls1 == IF fresh THEN RecOn(st.ls, w, CbProp) ELSE st.ls
    IN  [hs |-> Put(hs1, w, Append(hs1[w], h)),
         ls |-> ls1,
         stk |-> MapStack(st.stk, LAMBDA f :
                    IF f.kind = "walk" /\ f.lb = b /\ f.lt = w
                    THEN [f EXCEPT !.list = Append(f.list, h)] ELSE f)]

RECURSIVE onAll(_, _, _, _)
onAll(st, b, ws, h) ==
    IF ws = <<>> THEN st ELSE onAll(onEach(st, b, Head(ws), h), b, Tail(ws), h)

on(b, s, h) ==
    /\ UserCtx
    /\ bstate[b] = "alive"
    /\ ops < MaxOps
    /\ ops' = ops + 1
    /\ IF split(s) = NoMatch
       THEN /\ Throw("on", b, s, "TypeError")
            /\ UNCHANGED <<handlers, listeners>>
       ELSE LET st == onAll([hs |-> handlers[b], ls |-> listeners[b],
                             stk |-> Disturb(stack)], b, split(s), h)
            IN  /\ handlers' = [handlers EXCEPT ![b] = st.hs]
                /\ listeners' = [listeners EXCEPT ![b] = st.ls]
                /\ stack' = st.stk
                /\ Return("on", b, s, "hammer")
    /\ UNCHANGED <<parentNode, elemHammer, firstTarget, processing, bstate,
                   belement, boptions, events, handled, prevented, native,
                   seen, turn, emitted, passCount, tramp, inputTrace, gesture>>
    /\ registered' = IF split(s) = NoMatch THEN registered
                      ELSE registered \cup {<<h, split(s)[k]>> : k \in 1 .. Len(split(s))}
    /\ UNCHANGED dropped

\* ---------------------------------------------------------- hammer.off
\* mutant: the trampoline stays registered when the last handler goes
offEachKeepsTrampoline(st, b, w, h) ==
    IF ~Has(st.hs, w) THEN st
    ELSE LET new == IF h # NoHandler THEN Filter(st.hs[w], h) ELSE <<>>
         IN  IF Len(new) > 0
             THEN [hs |-> Put(st.hs, w, new), ls |-> st.ls, stk |-> st.stk]
             ELSE [hs |-> Delete(st.hs, w), ls |-> st.ls, stk |-> st.stk]

\* body of the forEach of hammer.off for one type name w
offEach(st, b, w, h) ==
    IF ~Has(st.hs, w) THEN st
    ELSE LET new == IF h # NoHandler THEN Filter(st.hs[w], h) ELSE <<>>
             stk1 == MapStack(st.stk, LAMBDA f :
                        IF f.kind = "walk" /\ f.lb = b /\ f.lt = w
                        THEN [f EXCEPT !.lb = Null] ELSE f)
         IN  IF Len(new) > 0
             THEN [hs |-> Put(st.hs, w, new), ls |-> st.ls, stk |-> stk1]
             ELSE [hs |-> Delete(st.hs, w), ls |-> RecOff(st.ls, w, CbProp),
                   stk |-> stk1]

RECURSIVE offAll(_, _, _, _)
offAll(st, b, ws, h) ==
    IF ws = <<>> THEN st ELSE offAll(offEach(st, b, Head(ws), h), b, Tail(ws), h)

off(b, s, h) ==
    /\ UserCtx
    /\ bstate[b] = "alive"
    /\ ops < MaxOps
    /\ ops' = ops + 1
    /\ IF split(s) = NoMatch
       THEN /\ Throw("off", b, s, "TypeError")
            /\ UNCHANGED <<handlers, listeners>>
       ELSE LET st == offAll([hs |-> handlers[b], ls |-> listeners[b],
                              stk |-> Disturb(stack)], b, split(s), h)
            IN  /\ handlers' = [handlers EXCEPT ![b] = st.hs]
                /\ listeners' = [listeners EXCEPT ![b] = st.ls]
                /\ stack' = st.stk
                /\ Return("off", b, s, "hammer")
    /\ UNCHANGED <<parentNode, elemHammer, firstTarget, processing, bstate,
                   belement, boptions, events, handled, prevented, native,
                   seen, turn, emitted, passCount, tramp, inputTrace, gesture>>
    /\ dropped' = dropped \cup {<<b, t>> : t \in (DOMAIN handlers[b]) \ (DOMAIN handlers'[b])}
    /\ UNCHANGED registered

\* ------------------------------------------------------- propagating()
\* _options.preventDefault for an options argument o
OptionsOf(o) == IF o = "absent" THEN "false" ELSE o

\* mutant: the guard of line 43 left out
RejectsNothing(o) == FALSE

\* the guard of line 43: options && options.preventDefault === false
RejectsOptions(o) == o # "absent" /\ o = "false"

FreeBinding == CHOOSE b \in Bindings : bstate[b] = "none" /\ \A c \in Bindings : bstate[c] = "none" => b <= c

\* propagating(new Hammer(el), o): wrap a manager that was just constructed
\* on element el
propagating(el, o) ==
    /\ UserCtx
    /\ \E b \in Bindings : bstate[b] = "none"
    /\ ops < MaxOps
    /\ ops' = ops + 1
    /\ IF RejectsOptions(o)
       THEN /\ Throw("propagating", Null, o, "Error")
            /\ UNCHANGED <<elemHammer, bstate, belement, boptions, handlers,
                   listeners>>
       ELSE LET b == FreeBinding
            IN  /\ elemHammer' = [elemHammer EXCEPT ![el] = b]
                /\ bstate' = [bstate EXCEPT ![b] = "alive"]
                /\ belement' = [belement EXCEPT ![b] = el]
                /\ boptions' = [boptions EXCEPT ![b] = OptionsOf(o)]
                /\ handlers' = [handlers EXCEPT ![b] = EmptyMap]
                /\ listeners' = [listeners EXCEPT ![b] = RecOn(EmptyMap, INPUT, CbInput)]
                /\ stack' = Disturb(stack)
                /\ Return("propagating", b, o, "hammer")
    /\ UNCHANGED <<parentNode, firstTarget, processing, events, handled,
                   prevented, native, seen, turn, emitted, passCount, tramp,
                   inputTrace, gesture,
                   registered, dropped>>

\* ------------------------------------------------------ hammer.destroy
\* mutant: destroy deletes element.hammer only when it is the binding
\* being destroyed
DetachOwn(b) ==
    IF elemHammer[belement[b]] = b
    THEN [elemHammer EXCEPT ![belement[b]] = Null] ELSE elemHammer

\* lines 161-162: delete element.hammer, for the element of binding b
Detach(b) == [elemHammer EXCEPT ![belement[b]] = Null]

destroy(b) ==
    /\ UserCtx
    /\ bstate[b] = "alive"
    /\ ops < MaxOps
    /\ ops' = ops + 1
    /\ elemHammer' = Detach(b)
    /\ handlers' = [handlers EXCEPT ![b] = EmptyMap]
    /\ listeners' = [listeners EXCEPT ![b] = EmptyMap]
    /\ bstate' = [bstate EXCEPT ![b] = "destroyed"]
    /\ stack' = MapStack(Disturb(stack), LAMBDA f :
          IF f.kind = "walk" /\ f.lb = b THEN [f EXCEPT !.lb = Null] ELSE f)
    /\ Return("destroy", b, "none", "undefined")
    /\ UNCHANGED <<parentNode, firstTarget, processing, belement, boptions,
                   events, handled, prevented, native, seen, turn, emitted,
                   passCount, tramp, inputTrace, gesture,
                   registered, dropped>>

\* --------------------------------------------------------- hammer.emit
NewEvent(tg, src, first, final, pt) ==
    [type |-> "undefined", target |-> tg, src |-> src, isFirst |-> first,
     isFinal |-> final, pointerType |-> pt, firstTarget |-> Null, stopPass |-> 0]

\* mutant: hammer.emit re-anchors whether or not a gesture is in progress
EmitAnchorAlways(tg) == tg

\* the value of _firstTarget after lines 153-155 for an event with target tg
EmitAnchor(tg) == IF ~processing THEN tg ELSE firstTarget

\* hammer.emit(type, evs[e]) called with the stack stk: lines 153-156, and
\* the manager's own emit, which sets event.type and calls a copy of the row
DoEmit(b, type, e, by, evs, stk) ==
    LET row == RecRow(listeners[b], type)
    IN  /\ firstTarget' = EmitAnchor(evs[e].target)
        /\ IF row = <<>>
           THEN /\ events' = evs
                /\ stack' = stk
           ELSE /\ events' = [evs EXCEPT ![e].type = type]
                /\ stack' = Append(stk, EmitFrame(b, e, row, by))

\* the srcEvent of an event object made by user code: an object of its own
SyntheticSrc(e) == 0 - e

\* hammer.emit(type, event) from user code with a new event object
emitNew(b, type, tg, first, final) ==
    /\ UserCtx
    /\ bstate[b] = "alive"
    /\ ops < MaxOps
    /\ Len(events) < MaxEvents
    /\ Len(stack) + 3 <= MaxDepth
    /\ type # INPUT => ~first /\ ~final
    /\ ops' = ops + 1
    /\ LET e == Len(events) + 1
       IN  DoEmit(b, type, e, "user",
                  Append(events, NewEvent(tg, SyntheticSrc(e), first, final, "mouse")),
                  Disturb(stack))
    /\ Return("emit", b, type, "undefined")
    /\ gesture' = IF type = INPUT THEN [gesture EXCEPT !.clean = FALSE] ELSE gesture
    /\ UNCHANGED <<parentNode, elemHammer, processing, bstate, belement,
                   boptions, handlers, listeners, handled, prevented, native,
                   seen, turn, emitted, passCount, tramp, inputTrace,
                   registered, dropped>>

\* hammer.emit(type, event) from a handler, with the event it was called with
emitSame(b, type) ==
    /\ stack # <<>>
    /\ Top.kind = "handler"
    /\ bstate[b] = "alive"
    /\ ops < MaxOps
    /\ Len(stack) + 3 <= MaxDepth
    /\ ops' = ops + 1
    /\ DoEmit(b, type, Top.e, "user", events, Disturb(stack))
    /\ Return("emit", b, type, "undefined")
    /\ gesture' = IF type = INPUT THEN [gesture EXCEPT !.clean = FALSE] ELSE gesture
    /\ UNCHANGED <<parentNode, elemHammer, processing, bstate, belement,
                   boptions, handlers, listeners, handled, prevented, native,
                   seen, turn, emitted, passCount, tramp, inputTrace,
                   registered, dropped>>

\* ------------------------------------------ the hammer.input listener
\* mutant: the pointer type is not compared
PolicyOnlyTrue(pd, pointerType) == pd = "true"

\* line 82: the default action of the native event is suppressed
PolicyApplies(pd, pointerType) == pd = "true" \/ pd = pointerType

\* ghost: the last run of the listener, for binding b with event ev
NoTrace == [b |-> Null, ev |-> NewEvent(Null, 0, FALSE, FALSE, "none"), effects |-> <<>>]

\* lines 82-91 as three statements in order, each on a record
\* [ft, proc, prevented, trace]
InputPrevent(pd, ev, st) ==
    IF PolicyApplies(pd, ev.pointerType)
    THEN [st EXCEPT !.prevented = @ \cup {ev.src}, !.trace = Append(@, "preventDefault")]
    ELSE st

\* mutant: the first phase records the target but not that a gesture began
InputFirstTargetOnly(ev, st) ==
    IF ev.isFirst
    THEN [st EXCEPT !.ft = ev.target, !.trace = Append(@, "first")]
    ELSE st

InputFirst(ev, st) ==
    IF ev.isFirst
    THEN [st EXCEPT !.ft = ev.target, !.proc = TRUE, !.trace = Append(@, "first")]
    ELSE st

InputFinal(ev, st) ==
    IF ev.isFinal
    THEN [st EXCEPT !.proc = FALSE, !.trace = Append(@, "final")]
    ELSE st

InputListener(pd, ev, st) == InputFinal(ev, InputFirst(ev, InputPrevent(pd, ev, st)))

\* ---------------------------------------------------- propagatedHandler
HandledTypes(src) == IF Has(handled, src) THEN handled[src] ELSE {}

\* mutant: the mark is kept per native event, not per type
HandledAnyType(ev) == ev.type # INPUT /\ HandledTypes(ev.src) # {}

\* lines 182-195: TRUE when the call returns at line 190
AlreadyHandled(ev) == ev.type # INPUT /\ ev.type \in HandledTypes(ev.src)

\* mutant: the trampoline does not mark the type on the native event
MarkNothing(ev) == handled

\* lines 182-195: srcEvent._handled after the guard
MarkHandled(ev) ==
    IF ev.type # INPUT
    THEN Put(handled, ev.src, HandledTypes(ev.src) \cup {ev.type})
    ELSE handled

\* line 209: elem.hammer && elem.hammer._handlers[event.type]
HasHandlers(elem, type) ==
    elemHammer[elem] # Null /\ Has(handlers[elemHammer[elem]], type)

\* line 211: the inner loop goes on
InnerGoesOn(f) == f.i < Len(f.list) /\ ~f.stopped

\* line 208: the outer loop goes on
OuterGoesOn(f) == f.elem # Null /\ ~f.stopped

\* mutant: the walk does not go on to the parent
NoNextElem(elem) == Null

\* mutant: the walk follows the parents the elements had when the bindings
\* were made (element el lay in element el - 1)
ParentAtCreation(elem) == elem - 1

\* line 216
NextElem(elem) == parentNode[elem]

\* lines 207-217 from the point the walk f is at, up to the next call of a
\* handler (pos = "loop", the handler is list[i + 1]) or to the end of the
\* function (pos = "done"); type is event.type
RECURSIVE Settle(_, _)
Settle(f, type) ==
    IF f.pos = "loop"
    THEN IF InnerGoesOn(f) THEN f
         ELSE Settle([f EXCEPT !.pos = "elem", !.elem = NextElem(f.elem),
                               !.list = <<>>, !.i = 0, !.lb = Null, !.lt = "none"],
                     type)
    ELSE IF OuterGoesOn(f)
         THEN IF HasHandlers(f.elem, type)
              THEN Settle([f EXCEPT !.pos = "loop",
                                    !.list = handlers[elemHammer[f.elem]][type],
                                    !.i = 0, !.lb = elemHammer[f.elem], !.lt = type],
                          type)
              ELSE Settle([f EXCEPT !.elem = NextElem(f.elem)], type)
         ELSE [f EXCEPT !.pos = "done"]

\* lines 197-207: the walk of a new pass p for event e
WalkFrame(e, p, by) ==
    [BlankFrame EXCEPT !.kind = "walk", !.e = e, !.pass = p, !.by = by,
                       !.elem = firstTarget, !.start = firstTarget, !.pos = "elem"]

\* ghost: what the trampoline did for (srcEvent, type)
TrampOf(key) == IF Has(tramp, key) THEN tramp[key] ELSE [calls |-> 0, passes |-> 0]

TrampCount(ev, walked) ==
    LET key == <<ev.src, ev.type>>
    IN  Put(tramp, key, [calls |-> TrampOf(key).calls + 1,
                         passes |-> TrampOf(key).passes + (IF walked THEN 1 ELSE 0)])

\* the manager calls the next callback of the row, or its emit returns
EmitStep ==
    /\ stack # <<>>
    /\ Top.kind = "emit"
    /\ IF Top.todo = <<>>
       THEN /\ stack' = Front(stack)
            /\ UNCHANGED <<firstTarget, processing, prevented, inputTrace,
                           handled, events, passCount, tramp>>
       ELSE LET cb == Head(Top.todo)
                rest == Append(Front(stack), [Top EXCEPT !.todo = Tail(@)])
                ev == events[Top.e]
            IN  IF cb = CbInput
                THEN LET st == InputListener(boptions[Top.b], ev,
                                   [ft |-> firstTarget, proc |-> processing,
                                    prevented |-> prevented, trace |-> <<>>])
                     IN  /\ firstTarget' = st.ft
                         /\ processing' = st.proc
                         /\ prevented' = st.prevented
                         /\ inputTrace' = [b |-> Top.b, ev |-> ev, effects |-> st.trace]
                         /\ stack' = rest
                         /\ UNCHANGED <<handled, events, passCount, tramp>>
                ELSE IF AlreadyHandled(ev)
                THEN /\ stack' = rest
                     /\ tramp' = TrampCount(ev, FALSE)
                     /\ UNCHANGED <<firstTarget, processing, prevented,
                                    inputTrace, handled, events, passCount>>
                ELSE /\ handled' = MarkHandled(ev)
                     /\ events' = [events EXCEPT ![Top.e].stopPass = passCount + 1,
                                                 ![Top.e].firstTarget = firstTarget]
                     /\ passCount' = passCount + 1
                     /\ tramp' = TrampCount(ev, TRUE)
                     /\ stack' = Append(rest, Settle(WalkFrame(Top.e, passCount + 1, Top.by),
                                                     ev.type))
                     /\ UNCHANGED <<firstTarget, processing, prevented, inputTrace>>
    /\ UNCHANGED <<parentNode, elemHammer, bstate, belement, boptions,
                   handlers, listeners, native, seen, turn, emitted, result,
                   ops, gesture,
                   registered, dropped>>

\* line 212: _handlers[i](event)
WalkInvoke ==
    /\ stack # <<>>
    /\ Top.kind = "walk"
    /\ Top.pos = "loop"
    /\ stack' = Append(Append(Front(stack),
                              [Top EXCEPT !.i = @ + 1,
                                          !.invoked = Append(@, <<Top.elem, Top.list[Top.i + 1]>>)]),
                       HandlerFrame(Top.list[Top.i + 1], Top.e, Top.pass, Top.elem,
                                    events[Top.e].type))
    /\ UNCHANGED <<parentNode, elemHammer, firstTarget, processing, bstate,
                   belement, boptions, handlers, listeners, events, handled,
                   prevented, native, seen, turn, emitted, result, passCount,
                   tramp, inputTrace, ops, gesture,
                   registered, dropped>>

\* propagatedHandler returns
WalkReturn ==
    /\ stack # <<>>
    /\ Top.kind = "walk"
    /\ Top.pos = "done"
    /\ stack' = Front(stack)
    /\ UNCHANGED <<parentNode, elemHammer, firstTarget, processing, bstate,
                   belement, boptions, handlers, listeners, events, handled,
                   prevented, native, seen, turn, emitted, result, passCount,
                   tramp, inputTrace, ops, gesture,
                   registered, dropped>>

\* ------------------------------------------------------- user handlers
\* the closure of lines 199-201 that belongs to pass p: stopped = true.
\* The variable matters as long as the walk of pass p is on the stack.
SetStopped(stk, p, by) ==
    MapStack(stk, LAMBDA f :
        IF f.kind = "walk" /\ f.pass = p /\ ~f.stopped
        THEN [f EXCEPT !.stopped = TRUE, !.stopLen = Len(f.invoked), !.stopBy = by]
        ELSE f)

\* the function event.stopPropagation refers to: the closure of the last
\* pass that ran line 199 on this event object
StopTarget(ev) == ev.stopPass

\* the handler on top calls event.stopPropagation()
stopPropagation ==
    /\ stack # <<>>
    /\ Top.kind = "handler"
    /\ ~Top.stopped
    /\ stack' = SetStopped(Disturb(Append(Front(stack), [Top EXCEPT !.stopped = TRUE])),
                           StopTarget(events[Top.e]), Top.pass)
    /\ UNCHANGED <<parentNode, elemHammer, firstTarget, processing, bstate,
                   belement, boptions, handlers, listeners, events, handled,
                   prevented, native, seen, turn, emitted, result, passCount,
                   tramp, inputTrace, ops, gesture,
                   registered, dropped>>

\* the handler on top returns to line 211
HandlerReturn ==
    /\ stack # <<>>
    /\ Top.kind = "handler"
    /\ LET below == Front(stack)
           w == Last(below)
       IN  stack' = Append(Front(below), Settle(w, events[w.e].type))
    /\ UNCHANGED <<parentNode, elemHammer, firstTarget, processing, bstate,
                   belement, boptions, handlers, listeners, events, handled,
                   prevented, native, seen, turn, emitted, result, passCount,
                   tramp, inputTrace, ops, gesture,
                   registered, dropped>>

\* mutant: propagatedHandler catches what a handler throws and goes on
UnwindCaught(stk) == Front(stk)

\* An exception thrown by the handler on top of stk leaves the handler, the
\* walk that called it (lines 211-212 have no try) and the manager's emit
\* that called the walk: the stack the caller of hammer.emit is left with.
Unwind(stk) == SubSeq(stk, 1, Len(stk) - 3)

\* The handler on top throws.  The exception reaches the caller of
\* hammer.emit: a handler further down, which may go on or throw in turn,
\* or the manager, whose handling of the native event ends there.
HandlerThrow ==
    /\ stack # <<>>
    /\ Top.kind = "handler"
    /\ stack' = Unwind(stack)
    \* ghost: the pass, the event, the native event, the element and the
    \* handler of the throw
    /\ result' = [op |-> "throw", b |-> Null,
                  arg |-> <<Top.pass, Top.e, native.id, Top.elem, Top.h>>,
                  ret |-> "exception"]
    /\ turn' = IF Len(stack) <= 3 THEN Null ELSE turn
    /\ UNCHANGED <<parentNode, elemHammer, firstTarget, processing, bstate,
                   belement, boptions, handlers, listeners, events, handled,
                   prevented, native, seen, emitted, passCount, tramp,
                   inputTrace, ops, gesture, registered, dropped>>

\* ------------------------------------------------------------ the DOM
\* el and the elements it lies in
RECURSIVE AncestorsOrSelf(_)
AncestorsOrSelf(el) ==
    IF el = Null THEN {} ELSE {el} \cup AncestorsOrSelf(parentNode[el])

\* User code moves element el into p (p.appendChild(el)), or out of the
\* document (p = Null); the DOM refuses to put an element into itself or
\* into an element it contains.
reparent(el, p) ==
    /\ UserCtx
    /\ ops < MaxOps
    /\ p # parentNode[el]
    /\ el \notin AncestorsOrSelf(p)
    /\ parentNode' = [parentNode EXCEPT ![el] = p]
    /\ stack' = Disturb(stack)
    /\ ops' = ops + 1
    /\ UNCHANGED <<elemHammer, firstTarget, processing, bstate, belement,
                   boptions, handlers, listeners, events, handled, prevented,
                   native, seen, turn, emitted, result, passCount, tramp,
                   inputTrace, gesture, registered, dropped>>

\* ------------------------------------------- the recognizers (hammer.js)
\* The managers a gesture that begins at tg reaches: those listening on tg
\* or on an element around it.
ManagersAround(tg) ==
    {b \in Bindings : bstate[b] = "alive" /\ belement[b] \in AncestorsOrSelf(tg)}

\* every manager the gesture reaches has taken the native event
AllSeen == \A b \in gesture.parts : bstate[b] = "alive" => seen[b] # Null

\* the event.target manager b reads off a native event with target tg: tg
\* when it lies in the manager's element, else the manager's element
TargetFor(b, tg) ==
    IF belement[b] \in AncestorsOrSelf(tg) THEN tg ELSE belement[b]

\* A native input event arrives: the next phase of the gesture in flight, or
\* the first phase of a new gesture (never the last one as well).  tg is its
\* target, final marks the last phase, pt is the pointer type of a new
\* gesture.  The event objects of the
\* native event before it are out of reach by now, and are dropped with what
\* was recorded about them.
NativeInput(tg, final, pt) ==
    /\ stack = <<>>
    /\ native.id < MaxNative
    /\ gesture.active \/ ~final
    /\ native.id = 0 \/ AllSeen
    /\ (gesture.active /\ native.pointerType = "touch") => tg = gesture.origin
    /\ LET first == ~gesture.active
           ptype == IF first THEN pt ELSE native.pointerType
       IN  /\ native' = [id |-> native.id + 1, target |-> tg, isFirst |-> first,
                         isFinal |-> final, pointerType |-> ptype]
           /\ gesture' = [active |-> ~final,
                          origin |-> IF first THEN tg ELSE gesture.origin,
                          clean |-> IF first THEN TRUE ELSE gesture.clean,
                          parts |-> IF first THEN ManagersAround(tg)
                                             ELSE gesture.parts]
    /\ seen' = [b \in Bindings |-> Null]
    /\ turn' = Null
    /\ emitted' = [b \in Bindings |-> {}]
    /\ events' = <<>>
    /\ handled' = [k \in {} |-> {}]
    /\ tramp' = [k \in {} |-> 0]
    /\ prevented' = {}
    /\ passCount' = 0
    /\ inputTrace' = NoTrace
    /\ result' = NoResult
    /\ UNCHANGED <<parentNode, elemHammer, firstTarget, processing, bstate,
                   belement, boptions, handlers, listeners, stack, ops,
                   registered, dropped>>

\* The manager of binding b takes the native event: it computes its input
\* and emits it as hammer.input through this.emit, the method propagating()
\* replaced (line 152).
RecognizerInput(b) ==
    /\ stack = <<>>
    /\ native.id > 0
    /\ bstate[b] = "alive"
    /\ b \in gesture.parts
    /\ seen[b] = Null
    /\ Len(events) < MaxEvents
    /\ LET e == Len(events) + 1
       IN  /\ DoEmit(b, INPUT, e, "rec",
                     Append(events, NewEvent(TargetFor(b, native.target), native.id, native.isFirst,
                                             native.isFinal, native.pointerType)),
                     stack)
           /\ seen' = [seen EXCEPT ![b] = e]
    /\ turn' = b
    /\ UNCHANGED <<parentNode, elemHammer, processing, bstate, belement,
                   boptions, handlers, listeners, handled, prevented, native,
                   emitted, result, passCount, tramp, inputTrace, ops, gesture,
                   registered, dropped>>

\* A recognizer of the manager that is handling the native event recognizes
\* gesture type t in its input and emits it, with that same input object,
\* through this.emit.
RecognizerGesture(b, t) ==
    /\ stack = <<>>
    /\ bstate[b] = "alive"
    /\ turn = b
    /\ t \notin emitted[b]
    /\ t = "panend" => "pan" \in emitted[b]
    /\ DoEmit(b, t, seen[b], "rec", events, stack)
    /\ emitted' = [emitted EXCEPT ![b] = @ \cup {t}]
    /\ UNCHANGED <<parentNode, elemHammer, processing, bstate, belement,
                   boptions, handlers, listeners, handled, prevented, native,
                   seen, turn, result, passCount, tramp, inputTrace, ops, gesture,
                   registered, dropped>>

\* The browser has called every listener of the native event: no manager
\* emits for it any more.
EndOfInput ==
    /\ stack = <<>>
    /\ turn # Null
    /\ AllSeen
    /\ turn' = Null
    /\ UNCHANGED <<parentNode, elemHammer, firstTarget, processing, bstate,
                   belement, boptions, handlers, listeners, events, handled,
                   prevented, stack, native, seen, emitted, result, passCount,
                   tramp, inputTrace, ops, gesture, registered, dropped>>

\* user code runs at top level between native events only
BetweenInputs == native.id = 0 \/ (AllSeen /\ turn = Null)

\* ------------------------------------------------------------------ Init
\* The document: a chain of nested elements, element 1 outermost.
InitParent == [el \in Elems |-> el - 1]

\* Registries a script builds with on(): on("pan", h1); and after it
\* on("pan panend", h2); on("pan", h2).
RegOne == Put(EmptyMap, "pan", <<"h1">>)
RegTwo == Put(Put(EmptyMap, "pan", <<"h1", "h2">>), "panend", <<"h2">>)
RegMid == Put(EmptyMap, "pan", <<"h2">>)

\* the manager's table for a registry: the input listener of line 81 and
\* the trampoline once per type of the registry
ListenersFor(reg) ==
    [t \in {INPUT} \cup DOMAIN reg |-> IF t = INPUT THEN <<CbInput>> ELSE <<CbProp>>]

\* The state after the page's script has run: the first binding wraps a
\* manager on the outermost element, without options, the second one a
\* manager on the innermost element, with preventDefault "touch"; some pages
\* have a third one on the element around the innermost, with preventDefault
\* true.  Each has handlers registered; no input has arrived yet.  The other
\* bindings are not constructed yet.
Init ==
    /\ parentNode = InitParent
    /\ \E mid \in BOOLEAN :
          /\ bstate = [b \in Bindings |-> IF b <= 2 \/ (b = 3 /\ mid) THEN "alive" ELSE "none"]
          /\ belement = [b \in Bindings |-> IF b = 1 THEN 1
                                            ELSE IF b = 2 THEN NumElems
                                            ELSE IF b = 3 /\ mid THEN NumElems - 1 ELSE Null]
          /\ elemHammer = [el \in Elems |-> IF el = 1 THEN 1
                                             ELSE IF el = NumElems THEN 2
                                             ELSE IF el = NumElems - 1 /\ mid THEN 3 ELSE Null]
          /\ handlers = [b \in Bindings |-> IF b = 1 THEN RegOne
                                            ELSE IF b = 2 THEN RegTwo
                                            ELSE IF b = 3 /\ mid THEN RegMid ELSE EmptyMap]
          /\ listeners = [b \in Bindings |-> IF b = 1 THEN ListenersFor(RegOne)
                                             ELSE IF b = 2 THEN ListenersFor(RegTwo)
                                             ELSE IF b = 3 /\ mid THEN ListenersFor(RegMid)
                                             ELSE EmptyMap]
    /\ boptions = [b \in Bindings |-> IF b = 1 THEN OptionsOf("absent")
                                      ELSE IF b = 2 THEN "touch"
                                      ELSE IF b = 3 THEN OptionsOf("true") ELSE "false"]
    /\ firstTarget = Null
    /\ processing = FALSE
    /\ events = <<>>
    /\ handled = [n \in {} |-> {}]
    /\ prevented = {}
    /\ stack = <<>>
    /\ native = [id |-> 0, target |-> Null, isFirst |-> FALSE, isFinal |-> FALSE,
                 pointerType |-> "mouse"]
    /\ seen = [b \in Bindings |-> Null]
    /\ turn = Null
    /\ emitted = [b \in Bindings |-> {}]
    /\ result = NoResult
    /\ passCount = 0
    /\ tramp = [k \in {} |-> 0]
    /\ inputTrace = NoTrace
    /\ ops = 0
    /\ gesture = [active |-> FALSE, origin |-> Null, clean |-> TRUE, parts |-> {}]
    /\ registered = {<<"h1", "pan">>, <<"h2", "pan">>, <<"h2", "panend">>}
    /\ dropped = {}

\* the steps of a dispatch: the manager's emit, the walk, the handlers
Dispatch ==
    \/ EmitStep
    \/ WalkInvoke
    \/ WalkReturn
    \/ HandlerReturn
    \/ stopPropagation

\* calls of the API by user code, at top level or from a handler
Api ==
    \/ \E el \in Elems, o \in OptionValues : propagating(el, o)
    \/ \E b \in Bindings, s \in OnStrings, h \in Handlers : on(b, s, h)
    \/ \E b \in Bindings, s \in OffStrings, h \in {"h1", NoHandler} : off(b, s, h)
    \/ \E b \in Bindings, tg \in Elems : emitNew(b, "pan", tg, FALSE, FALSE)
    \/ \E b \in Bindings, first \in BOOLEAN, final \in BOOLEAN :
          emitNew(b, INPUT, NumElems, first, final)
    \/ \E b \in Bindings, t \in Types : emitSame(b, t)
    \/ \E b \in Bindings : destroy(b)

\* native input and the recognizers' reaction to it
Recognizers ==
    \/ \E tg \in Elems, final \in BOOLEAN, pt \in PointerTypes : NativeInput(tg, final, pt)
    \/ \E b \in Bindings : RecognizerInput(b)
    \/ \E b \in Bindings, t \in GestureTypes : RecognizerGesture(b, t)
    \/ EndOfInput

Next ==
    \/ ops < MaxGestureOps /\ (stack = <<>> => BetweenInputs) /\ Api
    \/ Recognizers
    \/ Dispatch

Spec == Init /\ [][Next]_vars

\* user code drives everything, events are emitted by hand, on the page with
\* two bindings
NextApi == Api \/ Dispatch

InitApi == Init /\ bstate[3] = "none"

SpecApi == InitApi /\ [][NextApi]_vars

\* the recognizers drive the bindings of the page, handlers may throw, and
\* user code moves elements, wraps managers and destroys bindings between
\* two native events
NextDyn ==
    \/ Recognizers
    \/ Dispatch
    \/ HandlerThrow
    \/ /\ ops < MaxDomOps
       /\ stack = <<>>
       /\ BetweenInputs
       /\ \/ \E el \in Elems, p \in Elems \cup {Null} : reparent(el, p)
          \/ \E el \in Elems : propagating(el, "absent")
          \/ \E b \in Bindings : destroy(b)

SpecDyn == Init /\ [][NextDyn]_vars

TypeOK ==
    /\ firstTarget \in Elems \cup {Null}
    /\ processing \in BOOLEAN
    /\ \A b \in Bindings : bstate[b] \in {"none", "alive", "destroyed"}
    /\ Len(stack) <= MaxDepth

\* ============================================================== claims
Count(x, seq) == Cardinality({k \in 1 .. Len(seq) : seq[k] = x})

InSeq(x, seq) == \E k \in 1 .. Len(seq) : seq[k] = x

\* a walk that has reached the end of propagatedHandler
PassDone(f) == f.kind = "walk" /\ f.pos = "done"

\* the handlers the registry holds for type at element el, in order
RegisteredAt(el, type) ==
    IF elemHammer[el] # Null /\ type \in DOMAIN handlers[elemHammer[el]]
    THEN handlers[elemHammer[el]][type] ELSE <<>>

\* the <<element, handler>> pairs from el outwards
RECURSIVE ExpectedFrom(_, _)
ExpectedFrom(el, type) ==
    IF el = Null THEN <<>>
    ELSE [k \in 1 .. Len(RegisteredAt(el, type)) |-> <<el, RegisteredAt(el, type)[k]>>]
         \o ExpectedFrom(parentNode[el], type)

\* C1: a pass during which no handler stopped propagation and no handler
\* called the API has, when it ends, called the handlers of the element the
\* gesture began at and of its ancestors, innermost element first, and for
\* one element in registration order, each once.
C1_AncestorOrder ==
    IF stack = <<>> THEN TRUE
    ELSE (PassDone(Top) /\ Top.quiet /\ ~Top.stopped)
            => Top.invoked = ExpectedFrom(Top.start, events[Top.e].type)

\* C1 witness: every element of the chain carries a binding with a handler
\* for the type, and a gesture that began at the innermost element has been
\* delivered to the two handlers there, then to the handler of the element
\* around it, then to the handler of the outermost element.
C1_Witness ==
    /\ stack # <<>>
    /\ PassDone(Top) /\ Top.quiet /\ ~Top.stopped
    /\ Top.by = "rec"
    /\ Top.start = NumElems
    /\ \A el \in Elems : RegisteredAt(el, events[Top.e].type) # <<>>
    /\ Len(Top.invoked) = NumElems + 1
    /\ Top.invoked[1][1] = NumElems /\ Top.invoked[2][1] = NumElems
    /\ Top.invoked[3][1] = NumElems - 1
    /\ Top.invoked[NumElems + 1][1] = 1

C2_NoCallAfterStop ==
    \A k \in 1 .. Len(stack) :
        (stack[k].kind = "walk" /\ stack[k].stopped)
           => (Len(stack[k].invoked) = stack[k].stopLen /\ stack[k].stopBy = stack[k].pass)

\* C3 (as claimed): a handler called for a gesture event a recognizer emitted
\* sees firstTarget equal to the target of the first phase of the gesture
\* (no raw phase was emitted by hand meanwhile).
C3_FirstTargetIsOrigin ==
    IF Len(stack) < 2 THEN TRUE
    ELSE (/\ Top.kind = "handler"
          /\ stack[Len(stack) - 1].by = "rec"
          /\ stack[Len(stack) - 1].quiet
          /\ Top.lt \in GestureTypes
          /\ gesture.clean
          /\ events[Top.e].src = native.id)
            => events[Top.e].firstTarget = gesture.origin

\* C4: for a native event and a gesture type the trampoline was called for,
\* exactly one pass has run, however often it was called, and the type is
\* marked on the native event.
C4_OnePassPerNativeAndType ==
    \A key \in DOMAIN tramp :
        key[2] # INPUT => (tramp[key].passes = 1 /\ key[2] \in HandledTypes(key[1]))

\* C4 witness: for one native event the trampoline was called twice for pan
\* and once or more for panend, and each type got its pass.
C4_Witness ==
    \E n \in 1 .. MaxNative :
        /\ <<n, "pan">> \in DOMAIN tramp /\ <<n, "panend">> \in DOMAIN tramp
        /\ tramp[<<n, "pan">>].calls >= 2 /\ tramp[<<n, "pan">>].passes = 1
        /\ tramp[<<n, "panend">>].passes = 1

\* C5: when off leaves no handler for a type, the entry is gone and the
\* trampoline is no longer registered for it; an entry that on creates
\* registers the trampoline once; and a pass that ends undisturbed has called
\* each handler as often as the registry holds it at the time, so an off-ed
\* handler not at all and one added later once.
C5Step ==
    /\ \A b \in Bindings, t \in Types :
          (bstate[b] = "alive" /\ bstate'[b] = "alive") =>
             /\ (Has(handlers[b], t) /\ ~Has(handlers'[b], t))
                   => Count(CbProp, RecRow(listeners'[b], t)) = 0
             /\ Has(handlers'[b], t) => handlers'[b][t] # <<>>
             /\ (~Has(handlers[b], t) /\ Has(handlers'[b], t))
                   => Count(CbProp, RecRow(listeners'[b], t)) = 1
    /\ IF stack = <<>> THEN TRUE
       ELSE (PassDone(Top) /\ Top.quiet /\ ~Top.stopped) =>
               \A el \in Elems, h \in Handlers :
                   Count(<<el, h>>, Top.invoked) =
                       IF el \in AncestorsOrSelf(Top.start)
                       THEN Count(h, RegisteredAt(el, events[Top.e].type)) ELSE 0

C5_OffThenOnResumes == [][C5Step]_vars

\* C5 witness: a pass has ended that called the handlers of an entry off had
\* deleted and on created again.
C5_Witness ==
    /\ stack # <<>>
    /\ PassDone(Top) /\ Top.quiet /\ ~Top.stopped
    /\ \E b \in Bindings :
          /\ <<b, events[Top.e].type>> \in dropped
          /\ bstate[b] = "alive"
          /\ elemHammer[belement[b]] = b
          /\ Has(handlers[b], events[Top.e].type)
          /\ \E k \in 1 .. Len(Top.invoked) : Top.invoked[k][1] = belement[b]

\* a step that destroys binding b
Destroys(b) == bstate[b] = "alive" /\ bstate'[b] = "destroyed"

\* a pass that ended undisturbed called no handler at an element without a
\* binding
NoCallWithoutBinding ==
    IF stack = <<>> THEN TRUE
    ELSE (PassDone(Top) /\ Top.quiet) =>
            \A k \in 1 .. Len(Top.invoked) : elemHammer[Top.invoked[k][1]] # Null

\* C6 (as claimed): destroy leaves the element of the binding without a
\* binding, and changes neither the registry, nor the listeners, nor the
\* back-reference of any other binding.
C6Claimed ==
    /\ \A b \in Bindings : Destroys(b) =>
          /\ elemHammer'[belement[b]] = Null
          /\ \A c \in Bindings \ {b} :
                /\ handlers'[c] = handlers[c]
                /\ listeners'[c] = listeners[c]
                /\ \A el \in Elems : elemHammer[el] = c => elemHammer'[el] = c
    /\ NoCallWithoutBinding

C6_DestroyFrame == [][C6Claimed]_vars

\* C6 (amended): as claimed, but the back-reference that is kept is that of
\* the bindings on other elements.
C6Amended ==
    /\ \A b \in Bindings : Destroys(b) =>
          /\ elemHammer'[belement[b]] = Null
          /\ \A c \in Bindings \ {b} :
                /\ handlers'[c] = handlers[c]
                /\ listeners'[c] = listeners[c]
                /\ \A el \in Elems \ {belement[b]} : elemHammer[el] = c => elemHammer'[el] = c
    /\ NoCallWithoutBinding

C6_DestroyFrameOtherElements == [][C6Amended]_vars

\* C7: propagating() with preventDefault false throws, and changes nothing.
C7Step ==
    (ops' = ops + 1 /\ result'.op = "propagating" /\ result'.arg = "false")
       => /\ result'.ret = "Error"
          /\ UNCHANGED <<elemHammer, bstate, belement, boptions, handlers,
                         listeners, firstTarget, processing>>

C7_RejectsFalse == [][C7Step]_vars

\* C7 witness: the call was made and threw.
C7_Witness ==
    result.op = "propagating" /\ result.arg = "false" /\ result.ret = "Error"

\* C8: the hammer.input listener of a binding calls preventDefault exactly
\* when the policy of the binding is true or is the pointer type of the
\* event, never for a binding made without options, and before it touches
\* _firstTarget and _processing.
C8_DefaultActionPolicy ==
    inputTrace.b # Null =>
        LET pd == boptions[inputTrace.b]
            pt == inputTrace.ev.pointerType
            eff == inputTrace.effects
        IN  /\ InSeq("preventDefault", eff) <=> (pd = "true" \/ pd = pt)
            /\ pd = "false" => ~InSeq("preventDefault", eff)
            /\ InSeq("preventDefault", eff)
                  => (eff[1] = "preventDefault" /\ inputTrace.ev.src \in prevented)

\* C8 witness: a first phase of pointer type touch reached a binding whose
\* policy is "touch".
C8_Witness ==
    /\ inputTrace.b # Null
    /\ boptions[inputTrace.b] = "touch"
    /\ inputTrace.ev.pointerType = "touch"
    /\ inputTrace.effects = <<"preventDefault", "first">>

Blank(s) == \A k \in 1 .. Len(s) : s[k] = SP

\* C10 (as claimed): on and off with a blank type string return the binding
\* and change neither the registry nor the listeners.
C10Step ==
    (ops' = ops + 1 /\ result'.op \in {"on", "off"} /\ Blank(result'.arg))
       => /\ result'.ret = "hammer"
          /\ UNCHANGED <<handlers, listeners>>

C10_BlankTypesNoOp == [][C10Step]_vars

\* user code has called hammer.emit in this step
EmitCalled == ops' = ops + 1 /\ result'.op = "emit"

\* the event object that call was given
EmittedEvent == IF Len(events') > Len(events) THEN Len(events') ELSE Top.e

\* C11: hammer.emit(type, event) sets _firstTarget to event.target when no
\* gesture is in progress and leaves it when one is; it leaves _processing
\* and every registry as they are, and hands the event to the manager's own
\* emit once: the manager is about to call the listeners of the type, each
\* once, or there are none and nothing is called.
C11Step ==
    EmitCalled =>
        LET e == EmittedEvent
            row == RecRow(listeners[result'.b], result'.arg)
        IN  /\ firstTarget' = IF processing THEN firstTarget ELSE events'[e].target
            /\ processing' = processing
            /\ handlers' = handlers
            /\ listeners' = listeners
            /\ IF row = <<>>
               THEN Len(stack') = Len(stack)
               ELSE /\ Len(stack') = Len(stack) + 1
                    /\ Last(stack').kind = "emit"
                    /\ Last(stack').b = result'.b
                    /\ Last(stack').e = e
                    /\ Last(stack').todo = row
                    /\ events'[e].type = result'.arg

C12_WalkFollowsCurrentChain ==
    IF stack = <<>> THEN TRUE
    ELSE (PassDone(Top) /\ Top.quiet /\ ~Top.stopped) =>
            /\ Top.start = events[Top.e].firstTarget
            /\ \A k \in 1 .. Len(Top.invoked) :
                  Top.invoked[k][1] \in AncestorsOrSelf(Top.start)
            /\ \A el \in AncestorsOrSelf(Top.start), h \in Handlers :
                  Count(<<el, h>>, Top.invoked)
                     = Count(h, RegisteredAt(el, events[Top.e].type))

\* C12 witness: an element was moved, and a pass has called handlers but not
\* those of an element that was around the first target when the bindings
\* were made and is not any more.
C12_Witness ==
    /\ stack # <<>>
    /\ PassDone(Top) /\ Top.quiet /\ ~Top.stopped
    /\ Top.by = "rec"
    /\ parentNode # InitParent
    /\ Top.invoked # <<>>
    /\ \E el \in Elems :
          /\ el < Top.start
          /\ el \notin AncestorsOrSelf(Top.start)
          /\ RegisteredAt(el, events[Top.e].type) # <<>>

\* the handler on top throws in this step
Throws == Top.kind = "handler" /\ result' # result /\ result'.op = "throw"

\* C13: when a handler throws, propagatedHandler does not catch: the
\* handler, the walk that called it and the manager's emit that called the
\* walk are left at once, so the caller of emit gets the exception, and
\* from then on no handler is called by that pass.
C13Step ==
    /\ IF stack = <<>> THEN TRUE
       ELSE Throws =>
               /\ Len(stack') = Len(stack) - 3
               /\ \A k \in 1 .. Len(stack') : stack'[k] = stack[k]
               /\ stack[Len(stack) - 1].kind = "walk"
               /\ stack[Len(stack) - 1].pass = Top.pass
               /\ stack[Len(stack) - 2].kind = "emit"
    /\ (result.op = "throw" /\ result.arg[3] = native.id) =>
          \A k \in 1 .. Len(stack) :
              stack[k].kind \in {"walk", "handler"} => stack[k].pass # result.arg[1]

C13_ThrowEndsPass == [][C13Step]_vars

\* C13 witness: the first of the two pan handlers of the innermost element
\* has thrown; the exception has left every frame, and neither the second
\* handler nor a handler of an element around it was called.
C13_Witness ==
    /\ stack = <<>>
    /\ result.op = "throw"
    /\ result.arg[3] = native.id
    /\ result.arg[4] = NumElems
    /\ events[result.arg[2]].type = "pan"
    /\ Len(RegisteredAt(NumElems, "pan")) = 2
    /\ result.arg[5] = RegisteredAt(NumElems, "pan")[1]
    /\ RegisteredAt(1, "pan") # <<>>
    /\ tramp[<<native.id, "pan">>].calls = 1

\* the manager is about to call the hammer.input listener of line 81
InputListenerNext ==
    IF stack = <<>> THEN FALSE
    ELSE Top.kind = "emit" /\ Top.todo # <<>> /\ Head(Top.todo) = CbInput

\* C14: the hammer.input listener, for an event with isFirst, sets
\* _firstTarget to the target and _processing to true; with isFinal, sets
\* _processing to false and leaves _firstTarget; with neither, changes
\* neither; with both, ends with _firstTarget the target and _processing
\* false; for every binding and for each binding the event reaches.
C14Step ==
    InputListenerNext =>
        LET ev == events[Top.e]
        IN  /\ firstTarget' = IF ev.isFirst THEN ev.target ELSE firstTarget
            /\ processing' = IF ev.isFinal THEN FALSE
                             ELSE IF ev.isFirst THEN TRUE ELSE processing

C14_OriginStateMachine == [][C14Step]_vars

\* C14 witness: the final phase of a gesture has reached two bindings, the
\* second one just now: no gesture is in progress and _firstTarget is set.
C14_Witness ==
    /\ native.isFinal
    /\ inputTrace.b # Null
    /\ inputTrace.ev.src = native.id
    /\ inputTrace.effects = <<"final">>
    /\ \E b \in Bindings \ {inputTrace.b} : seen[b] # Null
    /\ ~processing
    /\ firstTarget # Null

\* C15: for a binding that is not destroyed, the trampoline is among the
\* manager's listeners of a type exactly when the registry has an entry for
\* the type, then once; and no entry of the registry is an empty list.
C15_TrampolineIffHandlers ==
    \A b \in Bindings : bstate[b] = "alive" =>
        /\ \A t \in DOMAIN handlers[b] : handlers[b][t] # <<>>
        /\ \A t \in DOMAIN handlers[b] \cup DOMAIN listeners[b] :
              Count(CbProp, RecRow(listeners[b], t))
                 = IF Has(handlers[b], t) THEN 1 ELSE 0

\* C15 witness: a binding lost the entry of one type to off, and has an
\* entry with two handlers that on made for another type.
C15_Witness ==
    \E b \in Bindings :
        /\ bstate[b] = "alive"
        /\ <<b, "pan">> \in dropped
        /\ ~Has(handlers[b], "pan")
        /\ Has(handlers[b], INPUT)
        /\ Len(handlers[b][INPUT]) = 2

\* the handlers walk f has still to call at the element it is delivering to
LeftAtElement(f) == Len(f.list) - f.i

\* C16 (as claimed): every pass ends, whatever the handlers do, each of them
\* returning.  The walk has a finite list at each of finitely many elements;
\* it ends if that work never grows: no step, the API calls of handlers
\* included, adds to the handlers a walk has still to call at the element it
\* is delivering to.
C16Step ==
    \A k \in 1 .. Len(stack) :
        (/\ k <= Len(stack')
         /\ stack[k].kind = "walk" /\ stack'[k].kind = "walk"
         /\ stack'[k].pass = stack[k].pass
         /\ stack[k].pos = "loop" /\ stack'[k].pos = "loop"
         /\ stack'[k].elem = stack[k].elem)
           => LeftAtElement(stack'[k]) <= LeftAtElement(stack[k])

C16_WalkWorkNeverGrows == [][C16Step]_vars

\* binding b is alive and its element exposes another binding
Shadowed(b) == bstate[b] = "alive" /\ elemHammer[belement[b]] # b

\* C17: an element exposes the binding made last on it; a handler that an
\* undisturbed pass calls comes from the list the exposed binding of the
\* element holds, so the handlers of a shadowed binding are not called; and
\* destroy of any binding of an element leaves the element without binding,
\* where no pass calls a handler.
C17Step ==
    /\ \A b \in Bindings :
          (bstate[b] = "none" /\ bstate'[b] = "alive")
             => elemHammer'[belement'[b]] = b
    /\ \A b \in Bindings : Destroys(b) => elemHammer'[belement[b]] = Null
    /\ \A k \in 1 .. Len(stack) :
          (stack[k].kind = "handler" /\ stack[k - 1].quiet) =>
              LET w == stack[k - 1]
                  c == elemHammer[w.elem]
              IN  /\ c # Null
                  /\ ~Shadowed(c)
                  /\ Has(handlers[c], w.lt)
                  /\ w.list = handlers[c][w.lt]
                  /\ stack[k].h = w.list[w.i]

C17_OneBindingPerElement == [][C17Step]_vars

\* C17 witness: of two bindings made on one element the later one was
\* destroyed; the earlier one is alive and has handlers for pan, and a pan
\* pass through the element has called handlers elsewhere and none there.
C17_Witness ==
    /\ stack # <<>>
    /\ PassDone(Top) /\ Top.quiet /\ ~Top.stopped
    /\ events[Top.e].type = "pan"
    /\ Top.invoked # <<>>
    /\ \E b, c \in Bindings :
          /\ b # c
          /\ bstate[b] = "alive" /\ bstate[c] = "destroyed"
          /\ belement[b] = belement[c]
          /\ Has(handlers[b], "pan")
          /\ belement[b] \in AncestorsOrSelf(Top.start)
          /\ \A k \in 1 .. Len(Top.invoked) : Top.invoked[k][1] # belement[b]

\* the types marked on native event src in the table hd
MarksOf(hd, src) == IF src \in DOMAIN hd THEN hd[src] ELSE {}

\* C18: the mark of a gesture type on a native event is set when the walk
\* of the first trampoline call begins, and stays: for a native event and a
\* gesture type the trampoline was called for, one pass has run and the mark
\* is set, also after a handler threw or when no handler was there to call;
\* and a pass calls no handler of an element twice.
C18Step ==
    /\ \A key \in DOMAIN tramp :
          key[2] # INPUT =>
             /\ tramp[key].passes = 1
             /\ key[1] \in DOMAIN handled
             /\ key[2] \in handled[key[1]]
    /\ native' = native =>
          \A src \in DOMAIN handled :
              src \in DOMAIN handled' /\ handled[src] \subseteq handled'[src]
    /\ (Len(stack') = Len(stack) + 1 /\ Last(stack').kind = "walk"
        /\ events'[Last(stack').e].type # INPUT)
          => events'[Last(stack').e].type
                \in MarksOf(handled', events'[Last(stack').e].src)
    /\ \A k \in 1 .. Len(stack) :
          stack[k].kind = "walk" =>
             \A i, j \in 1 .. Len(stack[k].invoked) :
                 i # j => stack[k].invoked[i] # stack[k].invoked[j]

ListAt(eh, hs, el, type) ==
    IF eh[el] # Null /\ type \in DOMAIN hs[eh[el]] THEN hs[eh[el]][type] ELSE <<>>

\* walk frame k is delivering to the same element before and after the step
StaysAt(k) ==
    /\ k <= Len(stack')
    /\ stack[k].kind = "walk" /\ stack'[k].kind = "walk"
    /\ stack'[k].pass = stack[k].pass
    /\ stack[k].pos = "loop" /\ stack'[k].pos = "loop"
    /\ stack'[k].elem = stack[k].elem

\* walk frame k begins to deliver to an element in this step
ArrivesAt(k) ==
    /\ stack'[k].kind = "walk" /\ stack'[k].pos = "loop"
    /\ IF k > Len(stack) THEN TRUE
       ELSE \/ stack[k].kind # "walk"
            \/ stack[k].pass # stack'[k].pass
            \/ stack[k].pos # "loop"
            \/ stack[k].elem # stack'[k].elem

\* C19: an off() leaves alone the list a pass is delivering; an on() for
\* the binding and type a pass is delivering adds its handler at the end of
\* that list, where the pass will call it; and a pass that comes to an
\* element takes the list the registry holds at that moment.
C19Step ==
    /\ \A k \in 1 .. Len(stack) :
          (StaysAt(k) /\ ops' = ops + 1 /\ result'.op = "off")
             => /\ stack'[k].list = stack[k].list
                /\ stack'[k].i = stack[k].i
    /\ \A k \in 1 .. Len(stack) :
          (StaysAt(k) /\ ops' = ops + 1 /\ result'.op = "on" /\ result'.ret = "hammer")
             => IF stack[k].lb = result'.b /\ InSeq(stack[k].lt, split(result'.arg))
                THEN /\ Len(stack'[k].list)
                           = Len(stack[k].list) + Count(stack[k].lt, split(result'.arg))
                     /\ SubSeq(stack'[k].list, 1, Len(stack[k].list)) = stack[k].list
                     /\ stack'[k].list = handlers'[stack[k].lb][stack[k].lt]
                     /\ stack'[k].i = stack[k].i
                ELSE stack'[k].list = stack[k].list
    /\ \A k \in 1 .. Len(stack') :
          ArrivesAt(k)
             => /\ stack'[k].list = ListAt(elemHammer', handlers', stack'[k].elem,
                                           events'[stack'[k].e].type)
                /\ stack'[k].i = 0

C20_InputListenerStays ==
    /\ \A b \in Bindings : bstate[b] = "alive" =>
          /\ RecRow(listeners[b], INPUT) # <<>>
          /\ RecRow(listeners[b], INPUT)[1] = CbInput
          /\ Count(CbInput, RecRow(listeners[b], INPUT)) = 1
    /\ inputTrace.b # Null =>
          /\ InSeq("first", inputTrace.effects) <=> inputTrace.ev.isFirst
          /\ InSeq("final", inputTrace.effects) <=> inputTrace.ev.isFinal

\* C20 witness: a binding had handlers for hammer.input and lost the entry
\* to off; a first phase emitted after that has set _firstTarget and
\* _processing.
C20_Witness ==
    /\ ops = MaxOps
    /\ result.op = "emit" /\ result.arg = INPUT
    /\ inputTrace.b = result.b
    /\ bstate[result.b] = "alive"
    /\ <<result.b, INPUT>> \in dropped
    /\ ~Has(handlers[result.b], INPUT)
    /\ inputTrace.effects = <<"first">>
    /\ processing
    /\ firstTarget = inputTrace.ev.target

====
